---------------------------- MODULE Spec2Model ----------------------------
(***************************************************************************)
(* A model of job_agent_multi.py: the provider adapters, provider          *)
(* detection, slug resolution, the keyword filter and the cross-run dedup  *)
(* store, with main() as the orchestrating state machine.                  *)
(*                                                                         *)
(* Python strings are sequences of one-character strings, so that          *)
(* substring tests, splitting, trimming and case folding are computed.     *)
(* Python values of unknown type (parsed JSON) are tagged records; each    *)
(* tag has a payload field of its own.                                     *)
(***************************************************************************)
EXTENDS Integers, Sequences, FiniteSets, TLC

(***************************************************************************)
(* Strings                                                                 *)
(***************************************************************************)
UpperChars == <<"A","B","C","D","E","F","G","H","I","J","K","L","M",
                "N","O","P","Q","R","S","T","U","V","W","X","Y","Z">>
LowerChars == <<"a","b","c","d","e","f","g","h","i","j","k","l","m",
                "n","o","p","q","r","s","t","u","v","w","x","y","z">>
DigitChars == <<"0","1","2","3","4","5","6","7","8","9">>

Range(s) == {s[i] : i \in DOMAIN s}

\* str.lower() on one character
LowerChar(c) ==
    IF c \in Range(UpperChars)
    THEN LowerChars[CHOOSE i \in DOMAIN UpperChars : UpperChars[i] = c]
    ELSE c

\* str.lower()
Lower(s) == [i \in 1..Len(s) |-> LowerChar(s[i])]

\* the characters str.strip() removes, among those the model writes
Whitespace == {" "}

\* s[i:] with a 1-based first index
From(s, i) == SubSeq(s, i, Len(s))

\* whether sub occurs in s at 1-based position i
OccursAt(sub, s, i) ==
    /\ i >= 1
    /\ i + Len(sub) - 1 <= Len(s)
    /\ SubSeq(s, i, i + Len(sub) - 1) = sub

\* str.find(sub, start): the least 1-based position >= start, 0 when absent
Find(s, sub, start) ==
    LET hits == {i \in start..(Len(s) + 1) : OccursAt(sub, s, i)}
    IN  IF hits = {} THEN 0 ELSE CHOOSE i \in hits : \A j \in hits : i <= j

\* str.rfind(sub): the greatest 1-based position, 0 when absent
RFind(s, sub) ==
    LET hits == {i \in 1..(Len(s) + 1) : OccursAt(sub, s, i)}
    IN  IF hits = {} THEN 0 ELSE CHOOSE i \in hits : \A j \in hits : i >= j

\* Python's  sub in s
Contains(sub, s) == Find(s, sub, 1) # 0

\* str.lstrip(chars) / str.rstrip(chars) / str.strip(chars)
RECURSIVE LStrip(_, _)
LStrip(s, chars) ==
    IF s # << >> /\ Head(s) \in chars THEN LStrip(Tail(s), chars) ELSE s

RECURSIVE RStrip(_, _)
RStrip(s, chars) ==
    IF s # << >> /\ s[Len(s)] \in chars
    THEN RStrip(SubSeq(s, 1, Len(s) - 1), chars)
    ELSE s

Strip(s, chars) == RStrip(LStrip(s, chars), chars)

\* str.split(sep) for a one-character separator: never empty
RECURSIVE Split(_, _)
Split(s, sep) ==
    LET i == Find(s, <<sep>>, 1)
    IN  IF i = 0 THEN <<s>>
        ELSE <<SubSeq(s, 1, i - 1)>> \o Split(From(s, i + 1), sep)

\* s[:n]
Truncate(s, n) == SubSeq(s, 1, IF Len(s) < n THEN Len(s) ELSE n)

RECURSIVE Concat(_)
Concat(ss) == IF ss = << >> THEN << >> ELSE Head(ss) \o Concat(Tail(ss))

(***************************************************************************)
(* urllib.parse.urlparse, as the program uses it (netloc and path), for    *)
(* ASCII text without tab, CR, LF and without "]".                         *)
(***************************************************************************)
SchemeChars == Range(LowerChars) \cup Range(UpperChars) \cup Range(DigitChars)
                 \cup {"+", "-", "."}

\* urllib.parse.uses_params
UsesParams ==
    {<< >>, <<"f","t","p">>, <<"h","d","l">>,
     <<"p","r","o","s","p","e","r","o">>, <<"h","t","t","p">>,
     <<"i","m","a","p">>, <<"h","t","t","p","s">>, <<"s","h","t","t","p">>,
     <<"r","t","s","p">>, <<"r","t","s","p","s">>, <<"r","t","s","p","u">>,
     <<"s","i","p">>, <<"s","i","p","s">>, <<"m","m","s">>,
     <<"s","f","t","p">>, <<"t","e","l">>}

\* urlsplit's scheme step: <<scheme, rest>>
SplitScheme(url) ==
    LET i == Find(url, <<":">>, 1)
    IN  IF /\ i > 1
           /\ url[1] \in Range(LowerChars) \cup Range(UpperChars)
           /\ \A k \in 1..(i - 1) : url[k] \in SchemeChars
        THEN <<Lower(SubSeq(url, 1, i - 1)), From(url, i + 1)>>
        ELSE <<<< >>, url>>

\* _splitnetloc(url, 2): <<netloc, rest>>, url starting with "//"
SplitNetloc(url) ==
    LET ends  == {i \in 3..Len(url) : url[i] \in {"/", "?", "#"}}
        delim == IF ends = {} THEN Len(url) + 1
                 ELSE CHOOSE i \in ends : \A j \in ends : i <= j
    IN  <<SubSeq(url, 3, delim - 1), From(url, delim)>>

\* the text before the first occurrence of c (all of s when c is absent)
Before(s, c) ==
    LET i == Find(s, <<c>>, 1) IN IF i = 0 THEN s ELSE SubSeq(s, 1, i - 1)

\* _splitparams(url)[0]
SplitParams(url) ==
    LET slash == RFind(url, <<"/">>)
        i == IF slash # 0 THEN Find(url, <<";">>, slash)
                          ELSE Find(url, <<";">>, 1)
    IN  IF i = 0 THEN url ELSE SubSeq(url, 1, i - 1)

\* urlparse(url): [ok, netloc, path]; ok = FALSE is ValueError("Invalid IPv6 URL")
UrlParse(url) ==
    LET u1     == LStrip(url, {" "})
        sr     == SplitScheme(u1)
        scheme == sr[1]
        hasNet == Len(sr[2]) >= 2 /\ SubSeq(sr[2], 1, 2) = <<"/", "/">>
        nl     == IF hasNet THEN SplitNetloc(sr[2]) ELSE <<<< >>, sr[2]>>
        netloc == nl[1]
        path0  == Before(Before(nl[2], "#"), "?")
        path   == IF scheme \in UsesParams /\ ";" \in Range(path0)
                  THEN SplitParams(path0) ELSE path0
    IN  IF ("[" \in Range(netloc)) # ("]" \in Range(netloc))
        THEN [ok |-> FALSE, netloc |-> << >>, path |-> << >>]
        ELSE [ok |-> TRUE, netloc |-> netloc, path |-> path]

(***************************************************************************)
(* Python values: what r.json() can return (null, strings, integers,       *)
(* arrays, objects) and what the adapters put into a posting.  An object   *)
(* is a sequence of [k, v] pairs with distinct keys, each key a string.    *)
(***************************************************************************)
Null == [t |-> "null"]
Str(s) == [t |-> "str", s |-> s]
Num(n) == [t |-> "num", n |-> n]
List(l) == [t |-> "list", l |-> l]
Dict(d) == [t |-> "dict", d |-> d]

EmptyStr == Str(<< >>)
EmptyList == List(<< >>)
EmptyDict == Dict(<< >>)

\* bool(v)
Truthy(v) ==
    CASE v.t = "null" -> FALSE
      [] v.t = "str"  -> v.s # << >>
      [] v.t = "num"  -> v.n # 0
      [] v.t = "list" -> v.l # << >>
      [] v.t = "dict" -> v.d # << >>

\* a or b
PyOr(a, b) == IF Truthy(a) THEN a ELSE b

\* whether v has a .get method (only dict has; anything else: AttributeError)
HasGet(v) == v.t = "dict"

\* v.get(k, default) for a dict v
Get(v, k, default) ==
    LET hits == {i \in DOMAIN v.d : v.d[i].k = k}
    IN  IF hits = {} THEN default ELSE v.d[CHOOSE i \in hits : TRUE].v

\* whether  for x in v  can start (otherwise TypeError)
Iterable(v) == v.t \in {"list", "dict", "str"}

\* the values  for x in v  yields
Items(v) ==
    CASE v.t = "list" -> v.l
      [] v.t = "dict" -> [i \in DOMAIN v.d |-> Str(v.d[i].k)]
      [] v.t = "str"  -> [i \in DOMAIN v.s |-> Str(<<v.s[i]>>)]
      [] OTHER        -> << >>

\* str(n) for a natural number n
RECURSIVE NatStr(_)
NatStr(n) ==
    IF n < 10 THEN <<DigitChars[n + 1]>>
    ELSE NatStr(n \div 10) \o <<DigitChars[(n % 10) + 1]>>

\* str(n) for an int
IntStr(n) == IF n < 0 THEN <<"-">> \o NatStr(-n) ELSE NatStr(n)

\* n digits of the natural number v, zero-padded on the left
RECURSIVE Pad(_, _)
Pad(v, n) ==
    IF n = 0 THEN << >> ELSE Pad(v \div 10, n - 1) \o <<DigitChars[(v % 10) + 1]>>

\* repr(v), for text without quotes, backslashes or control characters
RECURSIVE Repr(_)
RECURSIVE ReprItems(_)
RECURSIVE ReprPairs(_)
Repr(v) ==
    CASE v.t = "null" -> <<"N","o","n","e">>
      [] v.t = "str"  -> <<"'">> \o v.s \o <<"'">>
      [] v.t = "num"  -> IntStr(v.n)
      [] v.t = "list" -> <<"[">> \o ReprItems(v.l) \o <<"]">>
      [] v.t = "dict" -> <<"{">> \o ReprPairs(v.d) \o <<"}">>
ReprItems(l) ==
    IF l = << >> THEN << >>
    ELSE Repr(Head(l)) \o (IF Len(l) > 1 THEN <<",", " ">> ELSE << >>)
           \o ReprItems(Tail(l))
ReprPairs(d) ==
    IF d = << >> THEN << >>
    ELSE <<"'">> \o Head(d).k \o <<"'", ":", " ">> \o Repr(Head(d).v)
           \o (IF Len(d) > 1 THEN <<",", " ">> ELSE << >>)
           \o ReprPairs(Tail(d))

\* str(v), what an f-string puts for {v}
PyStr(v) == IF v.t = "str" THEN v.s ELSE Repr(v)

\* whether v[:n] is defined (otherwise TypeError)
Sliceable(v) == v.t \in {"str", "list"}

\* v[:n]
Slice(v, n) ==
    CASE v.t = "str"  -> Str(Truncate(v.s, n))
      [] v.t = "list" -> List(Truncate(v.l, n))
      [] OTHER        -> v

\* whether v[0] is defined (otherwise TypeError, IndexError or KeyError)
HasFirst(v) == (v.t = "str" /\ v.s # << >>) \/ (v.t = "list" /\ v.l # << >>)

\* v[0]
First(v) ==
    CASE v.t = "str"  -> Str(<<v.s[1]>>)
      [] v.t = "list" -> v.l[1]
      [] OTHER        -> Null

\* the snippet's preview length: [:280]
SnippetLen == 280

\* re.sub(r"<[^>]+>", " ", s): every leftmost "<", one or more non-">", ">"
RECURSIVE SubTags(_)
SubTags(s) ==
    IF s = << >> THEN << >>
    ELSE LET j == Find(s, <<">">>, 2)
         IN  IF Head(s) = "<" /\ j > 2
             THEN <<" ">> \o SubTags(From(s, j + 1))
             ELSE <<Head(s)>> \o SubTags(Tail(s))

\* whether strip_html(t) returns (re.sub wants a str: otherwise TypeError)
StripHtmlOk(t) == ~Truthy(t) \/ t.t = "str"

\* strip_html(t)
strip_html(t) == Str(Strip(SubTags(PyOr(t, EmptyStr).s), Whitespace))

(***************************************************************************)
(* Provider detection and slug resolution                                  *)
(***************************************************************************)
s_greenhouse == <<"g","r","e","e","n","h","o","u","s","e">>
s_lever == <<"l","e","v","e","r">>
s_workable == <<"w","o","r","k","a","b","l","e">>
s_ashby == <<"a","s","h","b","y">>
s_smartrecruiters == <<"s","m","a","r","t","r","e","c","r","u","i","t","e","r","s">>
s_workday == <<"w","o","r","k","d","a","y">>
h_greenhouse_io == <<"g","r","e","e","n","h","o","u","s","e",".","i","o">>
h_lever_co == <<"l","e","v","e","r",".","c","o">>
h_workable_com == <<"w","o","r","k","a","b","l","e",".","c","o","m">>
h_ashbyhq_com == <<"a","s","h","b","y","h","q",".","c","o","m">>
h_jobs_ashbyhq_com == <<"j","o","b","s",".","a","s","h","b","y","h","q",".","c","o","m">>
h_smartrecruiters_com == <<"s","m","a","r","t","r","e","c","r","u","i","t","e","r","s",".","c","o","m">>
h_myworkdayjobs_com == <<"m","y","w","o","r","k","d","a","y","j","o","b","s",".","c","o","m">>
h__myworkdayjobs_com == <<".","m","y","w","o","r","k","d","a","y","j","o","b","s",".","c","o","m">>

\* the six provider tags of detect_provider
KnownTags == {s_greenhouse, s_lever, s_workable, s_ashby, s_smartrecruiters,
              s_workday}

\* the five providers main() dispatches on a slug
SlugProviders == {s_greenhouse, s_lever, s_workable, s_ashby, s_smartrecruiters}

\* the provider of a hostname: detect_provider's chain of substring tests
HostProvider(host) ==
    CASE Contains(h_greenhouse_io, host) -> s_greenhouse
      [] Contains(h_lever_co, host) -> s_lever
      [] Contains(h_workable_com, host) -> s_workable
      [] Contains(h_ashbyhq_com, host) \/ Contains(h_jobs_ashbyhq_com, host)
           -> s_ashby
      [] Contains(h_smartrecruiters_com, host) -> s_smartrecruiters
      [] Contains(h_myworkdayjobs_com, host) -> s_workday
      [] OTHER -> << >>

\* detect_provider(provider, slug, career_url): [ok, val]; ok = FALSE is the
\* ValueError that urlparse raises
detect_provider(provider, slug, career_url) ==
    LET prov == Lower(Strip(provider, Whitespace))
        u    == UrlParse(career_url)
    IN  IF prov \in KnownTags THEN [ok |-> TRUE, val |-> prov]
        ELSE IF ~u.ok THEN [ok |-> FALSE, val |-> << >>]
        ELSE [ok |-> TRUE, val |-> HostProvider(Lower(u.netloc))]

\* slug_from_url(prov, career_url): [ok, val]; ok = FALSE is urlparse's ValueError
slug_from_url(prov, career_url) ==
    LET u     == UrlParse(career_url)
        path  == Strip(u.path, {"/"})
        parts == IF path # << >> THEN Split(path, "/") ELSE << >>
    IN  IF ~u.ok THEN [ok |-> FALSE, val |-> << >>]
        ELSE IF prov \in SlugProviders
        THEN [ok |-> TRUE, val |-> IF parts # << >> THEN parts[1] ELSE << >>]
        ELSE [ok |-> TRUE, val |-> << >>]

(***************************************************************************)
(* Keyword filter                                                          *)
(***************************************************************************)
\* the subsequence of s at the indices in keep
SelectIdx(s, keep) ==
    LET F[i \in 0..Len(s)] ==
            IF i = 0 THEN << >>
            ELSE IF i \in keep THEN Append(F[i - 1], s[i]) ELSE F[i - 1]
    IN  F[Len(s)]

\* kws of keyword_filter: the trimmed, lower-cased, non-empty tokens
Keywords(kw_str) ==
    LET toks == Split(kw_str, ";")
        keep == {i \in DOMAIN toks : Strip(toks[i], Whitespace) # << >>}
    IN  SelectIdx([i \in DOMAIN toks |-> Lower(Strip(toks[i], Whitespace))], keep)

\* hay of keyword_filter: f"{title} {snippet} {location}".lower()
Hay(r) ==
    Lower(PyStr(r.title) \o <<" ">> \o PyStr(r.snippet) \o <<" ">>
            \o PyStr(r.location))

\* keyword_filter(rows, kw_str)
keyword_filter(rows, kw_str) ==
    LET kws == Keywords(kw_str)
    IN  IF kws = << >> THEN rows
        ELSE SelectIdx(rows, {i \in DOMAIN rows :
                 \E k \in DOMAIN kws : Contains(kws[k], Hay(rows[i]))})

(***************************************************************************)
(* Provider adapters.  `net` is what get_json meets: a transport error, an *)
(* HTTP error status, a body that is not JSON, or the parsed document.     *)
(***************************************************************************)
\* the keys the adapters read in the providers' documents
Key ==
    [jobs |-> <<"j","o","b","s">>,
     title |-> <<"t","i","t","l","e">>,
     location |-> <<"l","o","c","a","t","i","o","n">>,
     name |-> <<"n","a","m","e">>,
     absolute_url |-> <<"a","b","s","o","l","u","t","e","_","u","r","l">>,
     updated_at |-> <<"u","p","d","a","t","e","d","_","a","t">>,
     content |-> <<"c","o","n","t","e","n","t">>,
     text |-> <<"t","e","x","t">>,
     state |-> <<"s","t","a","t","e">>,
     categories |-> <<"c","a","t","e","g","o","r","i","e","s">>,
     team |-> <<"t","e","a","m">>,
     hostedUrl |-> <<"h","o","s","t","e","d","U","r","l">>,
     createdAt |-> <<"c","r","e","a","t","e","d","A","t">>,
     descriptionPlain |-> <<"d","e","s","c","r","i","p","t","i","o","n","P","l","a","i","n">>,
     results |-> <<"r","e","s","u","l","t","s">>,
     city |-> <<"c","i","t","y">>,
     application_url |-> <<"a","p","p","l","i","c","a","t","i","o","n","_","u","r","l">>,
     url |-> <<"u","r","l">>,
     published_on |-> <<"p","u","b","l","i","s","h","e","d","_","o","n">>,
     shortcode |-> <<"s","h","o","r","t","c","o","d","e">>,
     ref |-> <<"r","e","f">>,
     jobAdUrl |-> <<"j","o","b","A","d","U","r","l">>,
     applyUrl |-> <<"a","p","p","l","y","U","r","l">>,
     postingUrl |-> <<"p","o","s","t","i","n","g","U","r","l">>,
     id |-> <<"i","d">>,
     releasedDate |-> <<"r","e","l","e","a","s","e","d","D","a","t","e">>,
     createdOn |-> <<"c","r","e","a","t","e","d","O","n">>,
     jobAd |-> <<"j","o","b","A","d">>,
     sections |-> <<"s","e","c","t","i","o","n","s">>,
     companyDescription |-> <<"c","o","m","p","a","n","y","D","e","s","c","r","i","p","t","i","o","n">>,
     data |-> <<"d","a","t","a">>,
     jobBoard |-> <<"j","o","b","B","o","a","r","d">>,
     teams |-> <<"t","e","a","m","s">>,
     locationName |-> <<"l","o","c","a","t","i","o","n","N","a","m","e">>,
     locationSlug |-> <<"l","o","c","a","t","i","o","n","S","l","u","g">>,
     publishedAt |-> <<"p","u","b","l","i","s","h","e","d","A","t">>,
     jobPostings |-> <<"j","o","b","P","o","s","t","i","n","g","s">>,
     locations |-> <<"l","o","c","a","t","i","o","n","s">>,
     externalPath |-> <<"e","x","t","e","r","n","a","l","P","a","t","h">>,
     postedOn |-> <<"p","o","s","t","e","d","O","n">>,
     startDate |-> <<"s","t","a","r","t","D","a","t","e">>,
     shortDescription |-> <<"s","h","o","r","t","D","e","s","c","r","i","p","t","i","o","n">>]
s_published == <<"p","u","b","l","i","s","h","e","d">>
s_Greenhouse == <<"G","r","e","e","n","h","o","u","s","e">>
s_Lever == <<"L","e","v","e","r">>
s_Workable == <<"W","o","r","k","a","b","l","e">>
s_SmartRecruiters == <<"S","m","a","r","t","R","e","c","r","u","i","t","e","r","s">>
s_Ashby == <<"A","s","h","b","y">>
s_Workday == <<"W","o","r","k","d","a","y">>
s_https___ == <<"h","t","t","p","s",":","/","/">>
s_https___jobs_smartrecruiters_com_ == <<"h","t","t","p","s",":","/","/","j","o","b","s",".","s","m","a","r","t","r","e","c","r","u","i","t","e","r","s",".","c","o","m","/">>
s__00_00 == <<"+","0","0",":","0","0">>

\* get_json(...) returns the document (otherwise it raises)
NetOk(net) == net.kind = "json"

Posting(company, title, location, url, source, postedAt, snippet) ==
    [company |-> company, title |-> title, location |-> location, url |-> url,
     source |-> source, postedAt |-> postedAt, snippet |-> snippet]

NoRow == Posting(Null, Null, Null, Null, Null, Null, Null)

\* one pass of an adapter's loop body: a posting appended, an entry skipped
\* (continue), or an exception
Row(r) == [st |-> "row", row |-> r]
Skipped == [st |-> "skip", row |-> NoRow]
Raised == [st |-> "raise", row |-> NoRow]

\* `out` when the loop ends or an exception leaves it: the postings appended
\* before the first exception; warned = the except branch ran
Collect(results) ==
    LET bad == {i \in DOMAIN results : results[i].st = "raise"}
        n   == IF bad = {} THEN Len(results) + 1
               ELSE CHOOSE i \in bad : \A j \in bad : i <= j
        hit == {i \in 1..(n - 1) : results[i].st = "row"}
    IN  [rows   |-> SelectIdx([i \in DOMAIN results |-> results[i].row], hit),
         warned |-> bad # {}]

\* an adapter's return: its postings, whether it logged a warning, and the
\* number of HTTP requests it issued
Outcome(c, requests) ==
    [rows |-> c.rows, warned |-> c.warned, requests |-> requests]

\* an exception before the first posting: `out` is still empty, the except
\* branch ran
Failed == [rows |-> << >>, warned |-> TRUE]

\* "company": name or slug
Company(name, slug) == Str(IF name # << >> THEN name ELSE slug)

\* fetch_greenhouse's loop body for one element j of data["jobs"]
GreenhouseRow(j, slug, name) ==
    IF ~HasGet(j) THEN Raised
    ELSE LET loc == PyOr(Get(j, Key.location, Null), EmptyDict)
             content == Get(j, Key.content, EmptyStr)
         IN  IF ~HasGet(loc) \/ ~StripHtmlOk(content) THEN Raised
             ELSE Row(Posting(Company(name, slug),
                              Get(j, Key.title, Null),
                              Get(loc, Key.name, EmptyStr),
                              Get(j, Key.absolute_url, Null),
                              Str(s_Greenhouse),
                              Get(j, Key.updated_at, Null),
                              Slice(strip_html(content), SnippetLen)))

\* fetch_greenhouse(slug, name)
fetch_greenhouse(slug, name, net) ==
    IF ~NetOk(net) \/ ~HasGet(net.doc) THEN Outcome(Failed, 1)
    ELSE LET jobs == Get(net.doc, Key.jobs, EmptyList)
         IN  IF ~Iterable(jobs) THEN Outcome(Failed, 1)
             ELSE Outcome(Collect([i \in DOMAIN Items(jobs) |->
                              GreenhouseRow(Items(jobs)[i], slug, name)]), 1)

\* the non-empty elements of a sequence of strings
NonEmpty(ss) == SelectIdx(ss, {i \in DOMAIN ss : ss[i] # << >>})

\* datetime.fromtimestamp(ms / 1000, tz=timezone.utc).isoformat(), for an int
\* ms whose quotient by 1000 is exact in a float (all of the model's integers)
IsoFormat(ms) ==
    LET secs  == ms \div 1000
        micro == (ms % 1000) * 1000
        days  == secs \div 86400
        sod   == secs % 86400
        z     == days + 719468
        era   == z \div 146097
        doe   == z % 146097
        yoe   == (doe - doe \div 1460 + doe \div 36524 - doe \div 146096) \div 365
        doy   == doe - (365 * yoe + yoe \div 4 - yoe \div 100)
        mp    == (5 * doy + 2) \div 153
        d     == doy - (153 * mp + 2) \div 5 + 1
        m     == IF mp < 10 THEN mp + 3 ELSE mp - 9
        y     == yoe + era * 400 + (IF m <= 2 THEN 1 ELSE 0)
    IN  Pad(y, 4) \o <<"-">> \o Pad(m, 2) \o <<"-">> \o Pad(d, 2) \o <<"T">>
          \o Pad(sod \div 3600, 2) \o <<":">> \o Pad((sod % 3600) \div 60, 2)
          \o <<":">> \o Pad(sod % 60, 2)
          \o (IF micro # 0 THEN <<".">> \o Pad(micro, 6) ELSE << >>)
          \o s__00_00

\* fetch_lever's loop body for one element j of data
LeverRow(j, slug, name) ==
    IF ~HasGet(j) THEN Raised
    ELSE LET state   == Get(j, Key.state, Str(s_published))
             cat     == PyOr(Get(j, Key.categories, Null), EmptyDict)
             created == Get(j, Key.createdAt, Null)
             desc    == PyOr(Get(j, Key.descriptionPlain, Null), EmptyStr)
         IN  IF state.t # "str" THEN Raised
             ELSE IF Lower(state.s) # s_published THEN Skipped
             ELSE IF ~HasGet(cat) THEN Raised
             ELSE IF Truthy(created) /\ created.t # "num" THEN Raised
             ELSE IF ~Sliceable(desc) THEN Raised
             ELSE Row(Posting(Company(name, slug),
                              Get(j, Key.text, Null),
                              PyOr(PyOr(Get(cat, Key.location, Null),
                                        Get(cat, Key.team, Null)), EmptyStr),
                              Get(j, Key.hostedUrl, Null),
                              Str(s_Lever),
                              IF Truthy(created) THEN Str(IsoFormat(created.n))
                                                 ELSE Null,
                              Slice(desc, SnippetLen)))

\* fetch_lever(slug, name)
fetch_lever(slug, name, net) ==
    IF ~NetOk(net) \/ ~Iterable(net.doc) THEN Outcome(Failed, 1)
    ELSE Outcome(Collect([i \in DOMAIN Items(net.doc) |->
                     LeverRow(Items(net.doc)[i], slug, name)]), 1)

\* fetch_workable's loop body for one element j of data["results"]
WorkableRow(j, slug, name) ==
    IF ~HasGet(j) THEN Raised
    ELSE LET loc  == PyOr(Get(j, Key.location, EmptyDict), EmptyDict)
             code == Get(j, Key.shortcode, EmptyStr)
         IN  IF ~HasGet(loc) \/ ~StripHtmlOk(code) THEN Raised
             ELSE Row(Posting(Company(name, slug),
                              Get(j, Key.title, Null),
                              Get(loc, Key.city, EmptyStr),
                              PyOr(Get(j, Key.application_url, Null),
                                   Get(j, Key.url, Null)),
                              Str(s_Workable),
                              PyOr(Get(j, Key.published_on, Null),
                                   Get(j, Key.updated_at, Null)),
                              Slice(strip_html(code), SnippetLen)))

\* fetch_workable(slug, name)
fetch_workable(slug, name, net) ==
    IF ~NetOk(net) \/ ~HasGet(net.doc) THEN Outcome(Failed, 1)
    ELSE LET results == Get(net.doc, Key.results, EmptyList)
         IN  IF ~Iterable(results) THEN Outcome(Failed, 1)
             ELSE Outcome(Collect([i \in DOMAIN Items(results) |->
                              WorkableRow(Items(results)[i], slug, name)]), 1)

\* fetch_smartrecruiters's loop body for one element j of data["content"]
SmartRecruitersRow(j, slug, name) ==
    IF ~HasGet(j) THEN Raised
    ELSE LET ref == Get(j, Key.ref, EmptyDict)
             loc == PyOr(Get(j, Key.location, EmptyDict), EmptyDict)
             ad  == Get(j, Key.jobAd, EmptyDict)
         IN  IF ~HasGet(ref) \/ ~HasGet(loc) \/ ~HasGet(ad) THEN Raised
             ELSE LET u0 == PyOr(PyOr(Get(ref, Key.jobAdUrl, Null),
                                      Get(j, Key.applyUrl, Null)),
                                 Get(j, Key.postingUrl, Null))
                      id == Get(j, Key.id, Null)
                      u  == IF ~Truthy(u0) /\ Truthy(id)
                            THEN Str(s_https___jobs_smartrecruiters_com_ \o slug
                                       \o <<"/">> \o PyStr(id))
                            ELSE u0
                      sections == Get(ad, Key.sections, EmptyDict)
                  IN  IF ~HasGet(sections) THEN Raised
                      ELSE LET cd == Get(sections, Key.companyDescription, EmptyStr)
                           IN  IF ~StripHtmlOk(cd) THEN Raised
                               ELSE Row(Posting(Company(name, slug),
                                                Get(j, Key.name, Null),
                                                Get(loc, Key.city, EmptyStr),
                                                u,
                                                Str(s_SmartRecruiters),
                                                PyOr(Get(j, Key.releasedDate, Null),
                                                     Get(j, Key.createdOn, Null)),
                                                Slice(strip_html(cd), SnippetLen)))

\* fetch_smartrecruiters(slug, name)
fetch_smartrecruiters(slug, name, net) ==
    IF ~NetOk(net) \/ ~HasGet(net.doc) THEN Outcome(Failed, 1)
    ELSE LET content == Get(net.doc, Key.content, EmptyList)
         IN  IF ~Iterable(content) THEN Outcome(Failed, 1)
             ELSE Outcome(Collect([i \in DOMAIN Items(content) |->
                              SmartRecruitersRow(Items(content)[i], slug, name)]), 1)

\* fetch_ashby's inner loop body for one element j of team["jobs"]
AshbyRow(j, slug, name) ==
    IF ~HasGet(j) THEN Raised
    ELSE Row(Posting(Company(name, slug),
                     Get(j, Key.title, Null),
                     PyOr(PyOr(Get(j, Key.locationName, Null),
                               Get(j, Key.locationSlug, Null)), EmptyStr),
                     Get(j, Key.applyUrl, Null),
                     Str(s_Ashby),
                     Get(j, Key.publishedAt, Null),
                     EmptyStr))

\* fetch_ashby's outer loop body for one element of board["teams"]: the passes
\* of the inner loop
AshbyTeam(team, slug, name) ==
    IF ~HasGet(team) THEN <<Raised>>
    ELSE LET jobs == PyOr(Get(team, Key.jobs, EmptyList), EmptyList)
         IN  IF ~Iterable(jobs) THEN <<Raised>>
             ELSE [i \in DOMAIN Items(jobs) |-> AshbyRow(Items(jobs)[i], slug, name)]

\* fetch_ashby(slug, name)
fetch_ashby(slug, name, net) ==
    IF ~NetOk(net) \/ ~HasGet(PyOr(net.doc, EmptyDict)) THEN Outcome(Failed, 1)
    ELSE LET data == Get(PyOr(net.doc, EmptyDict), Key.data, EmptyDict)
         IN  IF ~HasGet(data) THEN Outcome(Failed, 1)
             ELSE LET board == PyOr(Get(data, Key.jobBoard, EmptyDict), EmptyDict)
                  IN  IF ~HasGet(board) THEN Outcome(Failed, 1)
                      ELSE LET teams == PyOr(Get(board, Key.teams, EmptyList), EmptyList)
                           IN  IF ~Iterable(teams) THEN Outcome(Failed, 1)
                               ELSE Outcome(Collect(Concat(
                                        [i \in DOMAIN Items(teams) |->
                                            AshbyTeam(Items(teams)[i], slug, name)])), 1)

\* fetch_workday's loop body for one element j of data["jobPostings"]
WorkdayRow(j, host, tenant, name) ==
    IF ~HasGet(j) THEN Raised
    ELSE LET locs == PyOr(Get(j, Key.locations, EmptyList), List(<<Null>>))
             sd   == Get(j, Key.shortDescription, EmptyStr)
         IN  IF ~HasFirst(locs) \/ ~StripHtmlOk(sd) THEN Raised
             ELSE Row(Posting(Company(name, tenant),
                              Get(j, Key.title, Null),
                              PyOr(First(locs), EmptyStr),
                              Str(s_https___ \o host
                                    \o PyStr(Get(j, Key.externalPath, EmptyStr))),
                              Str(s_Workday),
                              PyOr(Get(j, Key.postedOn, Null),
                                   Get(j, Key.startDate, Null)),
                              Slice(strip_html(sd), SnippetLen)))

\* fetch_workday(career_url, name)
fetch_workday(career_url, name, net) ==
    LET u      == UrlParse(career_url)
        host   == u.netloc
        parts  == NonEmpty(Split(u.path, "/"))
        tenant == Split(host, ".")[1]
    IN  IF ~u.ok THEN Outcome(Failed, 0)
        ELSE IF ~Contains(h__myworkdayjobs_com, host) \/ Len(parts) < 1
        THEN [rows |-> << >>, warned |-> FALSE, requests |-> 0]
        ELSE IF ~NetOk(net) \/ ~HasGet(net.doc) THEN Outcome(Failed, 1)
        ELSE LET posts == PyOr(Get(net.doc, Key.jobPostings, EmptyList), EmptyList)
             IN  IF ~Iterable(posts) THEN Outcome(Failed, 1)
                 ELSE Outcome(Collect([i \in DOMAIN Items(posts) |->
                                  WorkdayRow(Items(posts)[i], host, tenant, name)]), 1)

(***************************************************************************)
(* The dedup store                                                         *)
(***************************************************************************)
\* whether sha1(s) returns: (s or "") must be a str to have .encode
Sha1Ok(s) == ~Truthy(s) \/ s.t = "str"

\* sha1(s): the hex digest of the text, named by the text digested (distinct
\* texts have distinct digests)
sha1(s) == [sha1 |-> PyOr(s, EmptyStr).s]

\* load_seen that takes the first row of the file for a header
load_seen_header(file) ==
    IF ~file.exists THEN {}
    ELSE {file.rows[i][1] : i \in {j \in DOMAIN file.rows : j > 1 /\ file.rows[j] # << >>}}

\* load_seen(path): the first field of every non-empty row; no file, no keys
load_seen(file) ==
    IF ~file.exists THEN {}
    ELSE {file.rows[i][1] : i \in {j \in DOMAIN file.rows : file.rows[j] # << >>}}

\* save_seen that opens the file for writing: what it held is gone
save_seen_truncating(file, order) ==
    [exists |-> TRUE, rows |-> [i \in DOMAIN order |-> <<order[i]>>]]

\* save_seen(path, keys), the keys written in the order `order`: the file is
\* opened for appending (and created) and gets one row per key
save_seen(file, order) ==
    [exists |-> TRUE, rows |-> file.rows \o [i \in DOMAIN order |-> <<order[i]>>]]

\* the orders in which a set of keys can be iterated
Orders(keys) ==
    {o \in [1..Cardinality(keys) -> keys] : \A i, j \in DOMAIN o : i # j => o[i] # o[j]}

\* a dedup loop that also tests the key against newkeys: a second posting of
\* the run with the same key is dropped
PartitionOncePerKey(rows, seenKeys) ==
    LET P[i \in 0..Len(rows)] ==
            IF i = 0 THEN [ok |-> TRUE, fresh |-> << >>, newkeys |-> {}]
            ELSE IF ~P[i - 1].ok THEN P[i - 1]
            ELSE IF ~Sha1Ok(rows[i].url) THEN [P[i - 1] EXCEPT !.ok = FALSE]
            ELSE IF sha1(rows[i].url) \notin seenKeys \cup P[i - 1].newkeys
            THEN [ok      |-> TRUE,
                  fresh   |-> Append(P[i - 1].fresh, rows[i]),
                  newkeys |-> P[i - 1].newkeys \cup {sha1(rows[i].url)}]
            ELSE P[i - 1]
    IN  P[Len(rows)]

\* the dedup loop of main() over all_rows: [ok, fresh, newkeys] when it ends;
\* ok = FALSE when sha1 raised in one of its passes
Partition(rows, seenKeys) ==
    LET P[i \in 0..Len(rows)] ==
            IF i = 0 THEN [ok |-> TRUE, fresh |-> << >>, newkeys |-> {}]
            ELSE IF ~P[i - 1].ok THEN P[i - 1]
            ELSE IF ~Sha1Ok(rows[i].url) THEN [P[i - 1] EXCEPT !.ok = FALSE]
            ELSE IF sha1(rows[i].url) \notin seenKeys
            THEN [ok      |-> TRUE,
                  fresh   |-> Append(P[i - 1].fresh, rows[i]),
                  newkeys |-> P[i - 1].newkeys \cup {sha1(rows[i].url)}]
            ELSE P[i - 1]
    IN  P[Len(rows)]

(***************************************************************************)
(* main(): one company of the loop                                         *)
(***************************************************************************)
NoOutcome == [rows |-> << >>, warned |-> FALSE, requests |-> 0]

\* a dispatch without the no-slug skip: the adapter is called with whatever
\* slug there is
DispatchNoSkip(prov, slug, name, career_url, net) ==
    IF prov \in SlugProviders
    THEN [calls |-> <<[adapter |-> prov, arg |-> slug]>>,
          out |-> CASE prov = s_greenhouse -> fetch_greenhouse(slug, name, net)
                    [] prov = s_lever -> fetch_lever(slug, name, net)
                    [] prov = s_workable -> fetch_workable(slug, name, net)
                    [] prov = s_ashby -> fetch_ashby(slug, name, net)
                    [] prov = s_smartrecruiters
                         -> fetch_smartrecruiters(slug, name, net)
                    [] OTHER -> NoOutcome]
    ELSE IF prov = s_workday
    THEN [calls |-> <<[adapter |-> s_workday, arg |-> career_url]>>,
          out |-> fetch_workday(career_url, name, net)]
    ELSE [calls |-> << >>, out |-> NoOutcome]

\* the adapter main() calls for a resolved provider and slug, with the call
\* recorded: [calls, out]
Dispatch(prov, slug, name, career_url, net) ==
    IF prov \in SlugProviders
    THEN IF slug = << >> /\ prov # s_workday
         THEN [calls |-> << >>, out |-> NoOutcome]
         ELSE [calls |-> <<[adapter |-> prov, arg |-> slug]>>,
               out |-> CASE prov = s_greenhouse -> fetch_greenhouse(slug, name, net)
                         [] prov = s_lever -> fetch_lever(slug, name, net)
                         [] prov = s_workable -> fetch_workable(slug, name, net)
                         [] prov = s_ashby -> fetch_ashby(slug, name, net)
                         [] prov = s_smartrecruiters
                              -> fetch_smartrecruiters(slug, name, net)
                         [] OTHER -> NoOutcome]
    ELSE IF prov = s_workday
    THEN [calls |-> <<[adapter |-> s_workday, arg |-> career_url]>>,
          out |-> fetch_workday(career_url, name, net)]
    ELSE [calls |-> << >>, out |-> NoOutcome]

\* a pass of main()'s loop that an exception of detect_provider (d) or of
\* slug_from_url (r) ended
PassRaised(d, r) ==
    [ok |-> FALSE, prov |-> d, slug |-> r, calls |-> << >>, out |-> NoOutcome,
     kept |-> << >>]

\* the end of a pass: rows = keyword_filter(rows, keywords)
PassFiltered(d, r, c, keywords) ==
    [ok |-> TRUE, prov |-> d, slug |-> r, calls |-> c.calls, out |-> c.out,
     kept |-> keyword_filter(c.out.rows, keywords)]

\* a pass from the slug on: r is the configured slug or slug_from_url's answer
PassResolved(d, r, name, career_url, keywords, net) ==
    IF ~r.ok THEN PassRaised(d, r)
    ELSE PassFiltered(d, r, Dispatch(d.val, r.val, name, career_url, net), keywords)

\* a pass from the provider on: d is detect_provider's answer
PassDetected(d, name, slug, career_url, keywords, net) ==
    IF ~d.ok THEN PassRaised(d, [ok |-> TRUE, val |-> slug])
    ELSE PassResolved(d,
                      IF d.val \in SlugProviders /\ slug = << >>
                      THEN slug_from_url(d.val, career_url)
                      ELSE [ok |-> TRUE, val |-> slug],
                      name, career_url, keywords, net)

\* a pass from the row's fields on, as main() reads them
PassFields(name, provider, slug, career_url, keywords, net) ==
    PassDetected(detect_provider(provider, slug, career_url),
                 name, slug, career_url, keywords, net)

\* one pass of main()'s loop over the companies, for the row `row` and what
\* the provider answers: [ok, prov, slug, calls, out, kept]; ok = FALSE when
\* detect_provider or slug_from_url raised
ProcessRow(row, net) ==
    PassFields(Strip(row.company_name, Whitespace),
               Lower(Strip(row.provider, Whitespace)),
               Strip(row.slug, Whitespace),
               Strip(row.career_url, Whitespace),
               row.keywords, net)

(***************************************************************************)
(* The inputs of the runs: the rows of the companies sheet (company_name,  *)
(* provider, slug, career_url, keywords as read: text) and what a provider *)
(* endpoint answers.                                                       *)
(***************************************************************************)
CompanyInput(company_name, provider, slug, career_url, keywords) ==
    [company_name |-> company_name, provider |-> provider, slug |-> slug,
     career_url |-> career_url, keywords |-> keywords]

CoGreenhouse ==
    CompanyInput(<<"A","c","m","e">>,
      <<"g","r","e","e","n","h","o","u","s","e">>, <<"a","c","m","e">>,
      <<>>, <<>>)

CoLever ==
    CompanyInput(<<>>, <<>>, <<>>,
      <<"h","t","t","p","s",":","/","/","j","o","b","s",".","l","e","v","e","r",".","c","o","/","a","c","m","e">>,
      <<"e","n","g","i","n","e","e","r">>)

CoNoSlug ==
    CompanyInput(<<"A","c","m","e">>, <<"l","e","v","e","r">>, <<>>,
      <<"h","t","t","p","s",":","/","/","j","o","b","s",".","l","e","v","e","r",".","c","o","/">>,
      <<>>)

CoWorkable ==
    CompanyInput(<<>>, <<" ","W","o","r","k","a","b","l","e">>,
      <<"w","k">>, <<>>, <<"n","o","n","e">>)

CoSmartRecruiters ==
    CompanyInput(<<"S","r">>, <<>>, <<>>,
      <<"h","t","t","p","s",":","/","/","j","o","b","s",".","s","m","a","r","t","r","e","c","r","u","i","t","e","r","s",".","c","o","m","/","s","r","/","1">>,
      <<>>)

CoAshby ==
    CompanyInput(<<>>, <<"a","s","h","b","y">>, <<>>,
      <<"h","t","t","p","s",":","/","/","j","o","b","s",".","a","s","h","b","y","h","q",".","c","o","m","/","a","c","m","e">>,
      <<>>)

CoWorkday ==
    CompanyInput(<<>>, <<>>, <<>>,
      <<"h","t","t","p","s",":","/","/","a","c","m","e",".","m","y","w","o","r","k","d","a","y","j","o","b","s",".","c","o","m","/","C","a","r","e","e","r","s">>,
      <<>>)

CoWorkdayHint ==
    CompanyInput(<<"W","d">>, <<"w","o","r","k","d","a","y">>, <<>>, <<>>,
      <<>>)

CoUnknown ==
    CompanyInput(<<"X">>, <<>>, <<"x">>,
      <<"h","t","t","p","s",":","/","/","e","x","a","m","p","l","e",".","c","o","m","/","c","a","r","e","e","r","s">>,
      <<>>)

CoBadUrl ==
    CompanyInput(<<"B","a","d">>, <<>>, <<>>,
      <<"h","t","t","p","s",":","/","/","[","a","c","m","e">>, <<>>)

CoBadSlug ==
    CompanyInput(<<"B","a","d">>,
      <<"g","r","e","e","n","h","o","u","s","e">>, <<>>,
      <<"h","t","t","p","s",":","/","/","[","a","c","m","e">>, <<>>)

Companies == {CoGreenhouse,
              CoLever,
              CoNoSlug,
              CoWorkable,
              CoSmartRecruiters,
              CoAshby,
              CoWorkday,
              CoWorkdayHint,
              CoUnknown,
              CoBadUrl,
              CoBadSlug}

NetError(kind) == [kind |-> kind, doc |-> Null]
NetJson(doc) == [kind |-> "json", doc |-> doc]

DocGreenhouse ==
    Dict(<<[k |-> Key.jobs, v |-> List(<<Dict(<<[k |-> Key.title,
      v |-> Str(<<"E","n","g","i","n","e","e","r">>)], [k |-> Key.location,
      v |-> Dict(<<[k |-> Key.name,
      v |-> Str(<<"R","e","m","o","t","e">>)]>>)], [k |-> Key.absolute_url,
      v |-> Str(<<"h","t","t","p","s",":","/","/","x","/","1">>)],
      [k |-> Key.content,
      v |-> Str(<<"<","p",">","H","i","<","/","p",">">>)]>>)>>)]>>)

DocGreenhouseTail ==
    Dict(<<[k |-> Key.jobs, v |-> List(<<Dict(<<[k |-> Key.absolute_url,
      v |-> Str(<<"h","t","t","p","s",":","/","/","x","/","1">>)]>>),
      Dict(<<[k |-> Key.absolute_url,
      v |-> Str(<<"h","t","t","p","s",":","/","/","x","/","1">>)],
      [k |-> Key.title, v |-> Null]>>), Str(<<"x">>)>>)]>>)

DocGreenhouseNum ==
    Dict(<<[k |-> Key.jobs, v |-> List(<<Dict(<<[k |-> Key.title,
      v |-> Str(<<"E","n","g","i","n","e","e","r">>)],
      [k |-> Key.absolute_url, v |-> Num(7)]>>)>>)]>>)

DocLever ==
    List(<<Dict(<<[k |-> Key.text,
      v |-> Str(<<"E","n","g","i","n","e","e","r">>)], [k |-> Key.hostedUrl,
      v |-> Str(<<"h","t","t","p","s",":","/","/","x","/","1">>)],
      [k |-> Key.createdAt, v |-> Num(1000)]>>), Dict(<<[k |-> Key.state,
      v |-> Str(<<"c","l","o","s","e","d">>)], [k |-> Key.hostedUrl,
      v |-> Str(<<"h","t","t","p","s",":","/","/","x","/","1">>)]>>),
      Dict(<<[k |-> Key.text,
      v |-> Str(<<"D","e","s","i","g","n","e","r">>)]>>)>>)

DocWorkable ==
    Dict(<<[k |-> Key.results, v |-> List(<<Dict(<<[k |-> Key.url,
      v |-> Str(<<"h","t","t","p","s",":","/","/","x","/","1">>)]>>),
      Dict(<<>>)>>)]>>)

DocSmartRecruiters ==
    Dict(<<[k |-> Key.content, v |-> List(<<Dict(<<[k |-> Key.name,
      v |-> Str(<<"E","n","g","i","n","e","e","r">>)], [k |-> Key.applyUrl,
      v |-> Str(<<"h","t","t","p","s",":","/","/","x","/","1">>)]>>),
      Dict(<<[k |-> Key.ref, v |-> Null]>>)>>)]>>)

DocAshby ==
    Dict(<<[k |-> Key.data, v |-> Dict(<<[k |-> Key.jobBoard,
      v |-> Dict(<<[k |-> Key.teams, v |-> List(<<Dict(<<[k |-> Key.jobs,
      v |-> List(<<Dict(<<[k |-> Key.title,
      v |-> Str(<<"E","n","g","i","n","e","e","r">>)], [k |-> Key.applyUrl,
      v |-> Str(<<"h","t","t","p","s",":","/","/","x","/","1">>)]>>)>>)]>>)>>)]>>)]>>)]>>)

DocWorkday ==
    Dict(<<[k |-> Key.jobPostings, v |-> List(<<Dict(<<[k |-> Key.title,
      v |-> Str(<<"E","n","g","i","n","e","e","r">>)],
      [k |-> Key.externalPath,
      v |-> Str(<<"/","j","o","b","/","1">>)]>>)>>)]>>)

Docs == {DocGreenhouse,
         DocGreenhouseTail,
         DocGreenhouseNum,
         DocLever,
         DocWorkable,
         DocSmartRecruiters,
         DocAshby,
         DocWorkday}

\* what get_json can meet: a transport error, an HTTP error status, a body
\* that is not JSON, a document
Nets == {NetError("transport"), NetError("http"), NetError("badjson")}
          \cup {NetJson(d) : d \in Docs}

(***************************************************************************)
(* main() as a state machine.  A run reads the sheet, passes over its      *)
(* rows, partitions the accumulated postings against the seen file and     *)
(* persists; the seen file is all that outlives a run.                     *)
(***************************************************************************)
\* the most rows a sheet has
MaxCompanies == 2

VARIABLES
    pc,            \* where main() is: idle (not running), loop, persist, done,
                   \* crashed (an exception left it)
    df,            \* the rows of the sheet of this run
    idx,           \* how many rows the loop has passed
    all_rows,      \* the postings accumulated in this run
    seen,          \* load_seen(SEEN_PATH) of this run
    fresh,         \* the fresh postings of this run
    newkeys,       \* their keys
    seen_file,     \* the file at SEEN_PATH: [exists, rows]
    step,          \* what the last pass of the loop did (ProcessRow)
    partitions,    \* how many times this run started the dedup loop
    persists,      \* how many times this run reached the persist branch
    prior_fresh,   \* the urls of the fresh postings of the completed runs before
    call           \* a function called on its own: its arguments and result

vars == <<pc, df, idx, all_rows, seen, fresh, newkeys, seen_file, step,
          partitions, persists, prior_fresh, call>>

NoStep ==
    [ok |-> TRUE, prov |-> [ok |-> TRUE, val |-> << >>],
     slug |-> [ok |-> TRUE, val |-> << >>], calls |-> << >>,
     out |-> NoOutcome, kept |-> << >>]

NoFile == [exists |-> FALSE, rows |-> << >>]

NoCall == [fn |-> "none"]

\* the sheets of at most MaxCompanies rows
Sheets == UNION {[1..n -> Companies] : n \in 0..MaxCompanies}

MainInit ==
    /\ pc = "idle"
    /\ df = << >>
    /\ idx = 0
    /\ all_rows = << >>
    /\ seen = {}
    /\ fresh = << >>
    /\ newkeys = {}
    /\ seen_file = NoFile
    /\ step = NoStep
    /\ partitions = 0
    /\ persists = 0
    /\ prior_fresh = {}

Init == MainInit /\ call = NoCall

\* main() starts: the sheet is read, all_rows is empty
ReadInput ==
    /\ pc = "idle"
    /\ \E sheet \in Sheets : df' = sheet
    /\ pc' = "loop"
    /\ UNCHANGED <<idx, all_rows, seen, fresh, newkeys, seen_file, step,
                   partitions, persists, prior_fresh, call>>

\* the loop has a next row
MoreRows == idx < Len(df)

\* one pass of the loop: detection, the adapter, the keyword filter,
\* all_rows.extend(rows); an exception of detect_provider or slug_from_url
\* leaves main()
ProcessCompany ==
    /\ pc = "loop"
    /\ MoreRows
    /\ \E net \in Nets :
         \E p \in {ProcessRow(df[idx + 1], net)} :
             /\ step' = p
             /\ IF p.ok
                THEN /\ all_rows' = all_rows \o p.kept
                     /\ idx' = idx + 1
                     /\ pc' = "loop"
                ELSE /\ pc' = "crashed"
                     /\ UNCHANGED <<all_rows, idx>>
    /\ UNCHANGED <<df, seen, fresh, newkeys, seen_file, partitions, persists,
                   prior_fresh, call>>

\* after the loop: load_seen and the dedup loop over all_rows; an exception of
\* sha1 leaves main()
Dedup ==
    /\ pc = "loop"
    /\ ~MoreRows
    /\ seen' = load_seen(seen_file)
    /\ \E p \in {Partition(all_rows, load_seen(seen_file))} :
         /\ fresh' = p.fresh
         /\ newkeys' = p.newkeys
         /\ pc' = IF p.ok THEN "persist" ELSE "crashed"
    /\ partitions' = partitions + 1
    /\ UNCHANGED <<df, idx, all_rows, seen_file, step, persists, prior_fresh,
                   call>>

\* the persist branch: with fresh postings the batch is written and save_seen
\* appends newkeys; without, the empty batch is written
Persist ==
    /\ pc = "persist"
    /\ IF fresh # << >>
       THEN \E order \in Orders(newkeys) : seen_file' = save_seen(seen_file, order)
       ELSE seen_file' = seen_file
    /\ persists' = persists + 1
    /\ prior_fresh' = prior_fresh \cup {fresh[i].url : i \in DOMAIN fresh}
    /\ pc' = "done"
    /\ UNCHANGED <<df, idx, all_rows, seen, fresh, newkeys, step, partitions,
                   call>>

\* the process ends, main() having returned or an exception having left it:
\* only the seen file stays
Exit ==
    /\ pc \in {"done", "crashed"}
    /\ pc' = "idle"
    /\ df' = << >>
    /\ idx' = 0
    /\ all_rows' = << >>
    /\ seen' = {}
    /\ fresh' = << >>
    /\ newkeys' = {}
    /\ step' = NoStep
    /\ partitions' = 0
    /\ persists' = 0
    /\ UNCHANGED <<seen_file, prior_fresh, call>>

Next == ReadInput \/ ProcessCompany \/ Dedup \/ Persist \/ Exit

Spec == Init /\ [][Next]_vars

(***************************************************************************)
(* Properties of the runs                                                  *)
(***************************************************************************)
\* the keys of the rows of all_rows
RowKey(r) == sha1(r.url)

\* C1: a posting URL that was in the fresh batch of a completed run is in the
\* fresh batch of no later run; in particular a run over a single posting with
\* no seen file has 1 fresh posting and persists 1 key, and a later run over the
\* same posting has 0 fresh postings.
SeenUrlsStaySuppressed ==
    /\ pc = "persist" => \A i \in DOMAIN fresh : fresh[i].url \notin prior_fresh
    /\ pc = "persist" /\ Len(all_rows) = 1 /\ ~seen_file.exists
         => Len(fresh) = 1 /\ Cardinality(newkeys) = 1
    /\ pc = "done" /\ Len(all_rows) = 1 /\ seen = {}
         => Len(seen_file.rows) = 1
    /\ pc = "persist" /\ Len(all_rows) = 1 /\ all_rows[1].url \in prior_fresh
         => fresh = << >>

\* a second run over a posting that an earlier run reported: nothing is fresh
SecondRunHasNothingFresh ==
    /\ pc = "persist"
    /\ Len(all_rows) = 1
    /\ all_rows[1].url \in prior_fresh
    /\ fresh = << >>
    /\ Cardinality(load_seen(seen_file)) = 1

\* C3: whatever the sheet holds and whatever the providers answer, no
\* exception leaves main(): the loop passes every row, the dedup loop and the
\* persist branch are reached.
NoExceptionLeavesMain == pc # "crashed"

\* C4: in every run the dedup loop and the persist branch are each executed
\* exactly once, over all of all_rows, and only after the loop has passed
\* every company.
PartitionAndPersistOncePerRun ==
    /\ partitions <= 1
    /\ persists <= 1
    /\ partitions > 0 => idx = Len(df)
    /\ persists > 0 => partitions = 1
    /\ pc \in {"done", "crashed"} => partitions = 1 /\ persists = 1

\* a run that ended without the persist branch
RunEndedWithoutPersist == pc = "crashed" /\ persists = 0

\* C5: the fresh batch is all_rows without the postings whose key is in the
\* seen set loaded in this run, in order and with multiplicity: two postings
\* with the same key not in that set are both fresh.
SameRunDuplicatesKept ==
    pc \in {"persist", "done"} =>
        /\ fresh = SelectIdx(all_rows,
                      {i \in DOMAIN all_rows : RowKey(all_rows[i]) \notin seen})
        /\ newkeys = {RowKey(all_rows[i]) : i \in DOMAIN all_rows} \ seen

\* two fresh postings with one key, next to a posting dropped as seen
TwoFreshWithOneKey ==
    /\ pc = "persist"
    /\ \E i, j \in DOMAIN fresh : i < j /\ RowKey(fresh[i]) = RowKey(fresh[j])
    /\ \E i \in DOMAIN all_rows : RowKey(all_rows[i]) \in seen

\* C6: no step removes a key from the seen file or rewrites a row of it: a
\* step leaves the file alone or, in the persist branch, appends the rows of
\* the run's new keys.
SeenFileOnlyGrows ==
    [][/\ load_seen(seen_file) \subseteq load_seen(seen_file')
       /\ Len(seen_file.rows) <= Len(seen_file'.rows)
       /\ SubSeq(seen_file'.rows, 1, Len(seen_file.rows)) = seen_file.rows
       /\ seen_file' # seen_file =>
            /\ pc = "persist"
            /\ load_seen(seen_file') = load_seen(seen_file) \cup newkeys]_vars

\* a run has appended keys to a file that held keys
AppendedToNonEmptyFile ==
    /\ pc = "done"
    /\ seen # {}
    /\ fresh # << >>
    /\ Len(seen_file.rows) = Cardinality(seen) + Cardinality(newkeys)

\* C7: a pass of the loop calls at most one adapter, that of the resolved
\* provider; with one of the five slug providers and neither a configured slug
\* nor a slug in the career URL it calls none and contributes nothing; with no
\* provider it calls none; with Workday it calls fetch_workday with the career
\* URL.
AtMostOneAdapterPerCompany ==
    /\ Len(step.calls) <= 1
    /\ idx > 0 /\ step.ok =>
         LET url  == Strip(df[idx].career_url, Whitespace)
             cfg  == Strip(df[idx].slug, Whitespace)
             prov == step.prov.val
         IN  /\ \A i \in DOMAIN step.calls : step.calls[i].adapter = prov
             /\ prov \in SlugProviders /\ cfg = << >>
                  /\ slug_from_url(prov, url).val = << >>
                  => step.calls = << >> /\ step.kept = << >>
             /\ prov \notin KnownTags => step.calls = << >>
             /\ prov = s_workday
                  => step.calls = <<[adapter |-> s_workday, arg |-> url]>>

\* a company of a slug provider was passed without an adapter call, for want
\* of a slug
SkippedForWantOfSlug ==
    /\ idx > 0
    /\ step.ok
    /\ step.prov.val \in SlugProviders
    /\ step.calls = << >>

(***************************************************************************)
(* The functions called on their own: `call` holds the arguments and, once *)
(* the call has returned or raised, its result.                            *)
(***************************************************************************)
HintNone == << >>
HintLever == <<"l","e","v","e","r">>
HintLeverCaps == <<"L","e","v","e","r">>
HintLeverUpper == <<"L","E","V","E","R">>
HintLeverPadded == <<" ","l","e","v","e","r"," ">>
HintWorkday == <<"w","o","r","k","d","a","y">>
HintOther == <<"t","a","l","e","o">>
HintAshby == <<"a","s","h","b","y">>
UrlNone == << >>
UrlGreenhouse == <<"h","t","t","p","s",":","/","/","b","o","a","r","d","s",".","g","r","e","e","n","h","o","u","s","e",".","i","o","/","a","c","m","e">>
UrlGreenhouseCaps == <<"h","t","t","p","s",":","/","/","B","o","a","r","d","s",".","G","r","e","e","n","h","o","u","s","e",".","I","O","/","a","c","m","e">>
UrlLever == <<"h","t","t","p","s",":","/","/","j","o","b","s",".","l","e","v","e","r",".","c","o","/","a","c","m","e">>
UrlWorkable == <<"h","t","t","p","s",":","/","/","a","p","p","l","y",".","w","o","r","k","a","b","l","e",".","c","o","m","/","a","c","m","e","/">>
UrlAshby == <<"h","t","t","p","s",":","/","/","j","o","b","s",".","a","s","h","b","y","h","q",".","c","o","m","/","a","c","m","e">>
UrlSmartRecruiters == <<"h","t","t","p","s",":","/","/","j","o","b","s",".","s","m","a","r","t","r","e","c","r","u","i","t","e","r","s",".","c","o","m","/","a","c","m","e","/","1">>
UrlWorkday == <<"h","t","t","p","s",":","/","/","a","c","m","e",".","m","y","w","o","r","k","d","a","y","j","o","b","s",".","c","o","m","/","C","a","r","e","e","r","s">>
UrlOther == <<"h","t","t","p","s",":","/","/","e","x","a","m","p","l","e",".","c","o","m","/","c","a","r","e","e","r","s">>
UrlNoScheme == <<"b","o","a","r","d","s",".","g","r","e","e","n","h","o","u","s","e",".","i","o","/","a","c","m","e">>
UrlBracket == <<"h","t","t","p","s",":","/","/","[","a","c","m","e">>
UrlWorkdayNoPath == <<"h","t","t","p","s",":","/","/","a","c","m","e",".","m","y","w","o","r","k","d","a","y","j","o","b","s",".","c","o","m">>
UrlWorkdaySlashes == <<"h","t","t","p","s",":","/","/","a","c","m","e",".","m","y","w","o","r","k","d","a","y","j","o","b","s",".","c","o","m","/","/">>
UrlWorkdayCaps == <<"h","t","t","p","s",":","/","/","A","C","M","E",".","M","Y","W","O","R","K","D","A","Y","J","O","B","S",".","C","O","M","/","C","a","r","e","e","r","s">>
UrlWorkdayNoScheme == <<"a","c","m","e",".","m","y","w","o","r","k","d","a","y","j","o","b","s",".","c","o","m","/","C","a","r","e","e","r","s">>
UrlMarkerInPath == <<"h","t","t","p","s",":","/","/","e","x","a","m","p","l","e",".","c","o","m","/",".","m","y","w","o","r","k","d","a","y","j","o","b","s",".","c","o","m">>
UrlMarkerInUserinfo == <<"h","t","t","p","s",":","/","/","a",".","m","y","w","o","r","k","d","a","y","j","o","b","s",".","c","o","m","@","e","x","a","m","p","l","e",".","c","o","m","/","x">>
UrlWorkdayDeep == <<"h","t","t","p","s",":","/","/","a","c","m","e",".","m","y","w","o","r","k","d","a","y","j","o","b","s",".","c","o","m","/","e","n","-","U","S","/","C","a","r","e","e","r","s","?","q","=","1">>

Hints == {HintNone,
          HintLever,
          HintLeverCaps,
          HintLeverUpper,
          HintLeverPadded,
          HintWorkday,
          HintOther,
          HintAshby}

DetectUrls == {UrlNone,
               UrlGreenhouse,
               UrlGreenhouseCaps,
               UrlLever,
               UrlWorkable,
               UrlAshby,
               UrlSmartRecruiters,
               UrlWorkday,
               UrlOther,
               UrlNoScheme,
               UrlBracket}

WorkdayUrls == {UrlNone,
                UrlWorkday,
                UrlOther,
                UrlBracket,
                UrlWorkdayNoPath,
                UrlWorkdaySlashes,
                UrlWorkdayCaps,
                UrlWorkdayNoScheme,
                UrlMarkerInPath,
                UrlMarkerInUserinfo,
                UrlWorkdayDeep}

DetectSlugs == {<< >>, s_lever}

DetectCalls ==
    {[fn |-> "detect_provider", provider |-> h, slug |-> g, career_url |-> u,
      done |-> FALSE, result |-> [ok |-> TRUE, val |-> << >>]] :
        h \in Hints, g \in DetectSlugs, u \in DetectUrls}

InitDetect == MainInit /\ call \in DetectCalls

\* detect_provider(provider, slug, career_url) is called
CallDetect ==
    /\ call.fn = "detect_provider"
    /\ ~call.done
    /\ \E r \in {detect_provider(call.provider, call.slug, call.career_url)} :
         call' = [call EXCEPT !.done = TRUE, !.result = r]
    /\ UNCHANGED <<pc, df, idx, all_rows, seen, fresh, newkeys, seen_file, step,
                   partitions, persists, prior_fresh>>

NextDetect == CallDetect

SpecDetect == InitDetect /\ [][NextDetect]_vars

\* C8: detect_provider returns the hint when the hint, case folded, is one of
\* the six tags, whatever the slug and the career URL; otherwise the provider
\* whose hostname substring is in the career URL's host; otherwise Unknown
\* (the empty tag).
DetectReturnsHintThenHostThenUnknown ==
    call.done =>
        LET hint == Lower(Strip(call.provider, Whitespace))
            u    == UrlParse(call.career_url)
        IN  /\ call.result.ok
            /\ call.result.val =
                 IF hint \in KnownTags THEN hint
                 ELSE IF u.ok THEN HostProvider(Lower(u.netloc))
                 ELSE << >>

\* the hint lever has won over a greenhouse.io host
HintWonOverHost ==
    /\ call.done
    /\ call.provider = HintLeverCaps
    /\ call.career_url = UrlGreenhouse
    /\ call.result = [ok |-> TRUE, val |-> s_lever]

\* the most postings in the argument of keyword_filter
MaxRows == 2

TitleEngineer == Str(<<"D","a","t","a"," ","E","n","g","i","n","e","e","r">>)
TitleDesigner == Str(<<"D","e","s","i","g","n","e","r">>)
SnippetRemote == Str(<<"R","e","m","o","t","e",","," ","o","n"," ","s","i","t","e">>)
LocationBerlin == Str(<<"B","e","r","l","i","n">>)

\* postings as the adapters build them: the title is j.get("title"), None when
\* the provider sent none; the snippet and the location are text
FilterPostings ==
    {Posting(Str(s_lever), t, l, Null, Str(s_Lever), Null, n) :
        t \in {TitleEngineer, TitleDesigner, Null},
        l \in {LocationBerlin, EmptyStr},
        n \in {SnippetRemote, EmptyStr}}

KwNone == << >>
KwBlank == <<" "," ",";"," ",";">>
KwEngineer == <<"e","n","g","i","n","e","e","r">>
KwTwo == <<" ","D","e","s","i","g","n"," ",";","B","E","R","L","I","N">>
KwAbsent == <<"n","o","n","e">>
KwNoMatch == <<"s","a","l","e","s">>

KeywordStrings == {KwNone, KwBlank, KwEngineer, KwTwo, KwAbsent, KwNoMatch}

FilterCalls ==
    {[fn |-> "keyword_filter", rows |-> r, kw_str |-> k, done |-> FALSE,
      result |-> << >>] :
        r \in UNION {[1..n -> FilterPostings] : n \in 0..MaxRows},
        k \in KeywordStrings}

InitFilter == MainInit /\ call \in FilterCalls

\* keyword_filter(rows, kw_str) is called
CallFilter ==
    /\ call.fn = "keyword_filter"
    /\ ~call.done
    /\ \E r \in {keyword_filter(call.rows, call.kw_str)} :
         call' = [call EXCEPT !.done = TRUE, !.result = r]
    /\ UNCHANGED <<pc, df, idx, all_rows, seen, fresh, newkeys, seen_file, step,
                   partitions, persists, prior_fresh>>

NextFilter == CallFilter

SpecFilter == InitFilter /\ [][NextFilter]_vars

\* the text a field of a posting contributes to the haystack, as the filter's
\* contract has it: an absent field contributes nothing
FieldText(v) == IF v = Null THEN << >> ELSE PyStr(v)

\* whether some keyword of kws is in the lower-cased, space-joined title,
\* snippet and location of r
Matches(r, kws) ==
    \E k \in DOMAIN kws :
        Contains(kws[k], Lower(FieldText(r.title) \o <<" ">> \o FieldText(r.snippet)
                                 \o <<" ">> \o FieldText(r.location)))

\* C9: keyword_filter returns its input when the keyword string has no
\* non-empty token; otherwise the postings, in order, of which the lower-cased
\* title, snippet and location joined by spaces contain a lower-cased keyword;
\* an absent title contributes no text.
FilterKeepsMatchesInOrder ==
    call.done =>
        LET kws == Keywords(call.kw_str)
        IN  call.result =
              IF kws = << >> THEN call.rows
              ELSE SelectIdx(call.rows,
                       {i \in DOMAIN call.rows : Matches(call.rows[i], kws)})

\* a filter with keywords has dropped a posting and kept another
FilterDroppedOne ==
    /\ call.done
    /\ call.kw_str = KwTwo
    /\ Len(call.rows) = 2
    /\ Len(call.result) = 1

\* the adapters, by the tag main() dispatches them on
Fetch(adapter, arg, name, net) ==
    CASE adapter = s_greenhouse -> fetch_greenhouse(arg, name, net)
      [] adapter = s_lever -> fetch_lever(arg, name, net)
      [] adapter = s_workable -> fetch_workable(arg, name, net)
      [] adapter = s_ashby -> fetch_ashby(arg, name, net)
      [] adapter = s_smartrecruiters -> fetch_smartrecruiters(arg, name, net)
      [] adapter = s_workday -> fetch_workday(arg, name, net)

AdapterNames == {<< >>, <<"A","c","m","e">>}

\* a slug adapter is called with a slug, fetch_workday with a career URL
AdapterCalls ==
    {[fn |-> "fetch", adapter |-> a, arg |-> <<"a","c","m","e">>, name |-> n,
      net |-> net, done |-> FALSE, result |-> NoOutcome] :
        a \in SlugProviders, n \in AdapterNames, net \in Nets}
    \cup
    {[fn |-> "fetch", adapter |-> s_workday, arg |-> u, name |-> n,
      net |-> net, done |-> FALSE, result |-> NoOutcome] :
        u \in WorkdayUrls, n \in AdapterNames, net \in Nets}

InitAdapter == MainInit /\ call \in AdapterCalls

\* an adapter is called and returns
CallAdapter ==
    /\ call.fn = "fetch"
    /\ ~call.done
    /\ \E r \in {Fetch(call.adapter, call.arg, call.name, call.net)} :
         call' = [call EXCEPT !.done = TRUE, !.result = r]
    /\ UNCHANGED <<pc, df, idx, all_rows, seen, fresh, newkeys, seen_file, step,
                   partitions, persists, prior_fresh>>

NextAdapter == CallAdapter

SpecAdapter == InitAdapter /\ [][NextAdapter]_vars

\* C2: an adapter whose fetch met a transport error, an HTTP error status or a
\* malformed response (one that made the adapter log its warning, be it at an
\* element after well-formed ones) returns the empty list.
AdapterFailureGivesEmpty ==
    call.done /\ (~NetOk(call.net) \/ call.result.warned)
        => call.result.rows = << >>

\* an adapter met a failed fetch and returned the empty list
FailedFetchGaveEmpty ==
    /\ call.done
    /\ ~NetOk(call.net)
    /\ call.result.requests = 1
    /\ call.result.warned
    /\ call.result.rows = << >>

\* the hostname of a network location: what follows the userinfo and precedes
\* the port, lower-cased (netloc without brackets)
Hostname(netloc) ==
    LET at == RFind(netloc, <<"@">>)
    IN  Lower(Before(From(netloc, at + 1), ":"))

\* C10: fetch_workday issues no request and returns the empty list when the
\* career URL's hostname lacks the Workday marker or its path has no non-empty
\* segment; it issues a request only when both are there, and then one.
WorkdayRequestsOnlyWorkday ==
    call.done /\ call.adapter = s_workday =>
        LET u       == UrlParse(call.arg)
            marker  == u.ok /\ Contains(h__myworkdayjobs_com, Hostname(u.netloc))
            segment == u.ok /\ \E i \in DOMAIN u.path : u.path[i] # "/"
        IN  /\ call.result.requests \in {0, 1}
            /\ call.result.requests = 1 => marker /\ segment
            /\ ~(marker /\ segment)
                 => call.result.requests = 0 /\ call.result.rows = << >>

\* fetch_workday returned without a request for a URL of another host
WorkdaySkippedOtherHost ==
    /\ call.done
    /\ call.adapter = s_workday
    /\ call.arg = UrlOther
    /\ NetOk(call.net)
    /\ call.result = NoOutcome

=============================================================================
